---- MODULE Spec2Model ----
(***************************************************************************)
(* jpegcomment: the marker-level JPEG decoder (Jpeg::deserialize), the     *)
(* serializer (JpegElement::write, Jpeg::serialize) and the document edit  *)
(* operations (delete_comment, set_comment, the anonymize filter of main). *)
(*                                                                         *)
(* Bytes are the integers 0..255; a buffer or a payload view is a sequence *)
(* of bytes (a view is modelled by the bytes it covers).  Option<T> is     *)
(* <<>> for None and <<v>> for Some(v).  Rust indexes from 0 and TLA+ from *)
(* 1: the Rust byte data[i] is data[i + 1] here, the Rust slice data[a..b] *)
(* is SubSeq(data, a + 1, b).                                              *)
(*                                                                         *)
(* The repository fixes no build profile, so integer overflow either       *)
(* panics (overflow checks on, the dev profile) or wraps (off, the release *)
(* profile): overflow_checks is chosen once per run.                       *)
(***************************************************************************)
EXTENDS Integers, Sequences, FiniteSets, TLC

VARIABLES
    data,             \* the input buffer handed to Jpeg::deserialize
    overflow_checks,  \* TRUE: arithmetic overflow panics; FALSE: it wraps
    pc,               \* where main is: "deserialize", "edit", "done"
    state,            \* deserialize: DecoderState
    offset,           \* deserialize: offset (bytes consumed so far)
    ecs_start,        \* deserialize: Option<usize>
    elems,            \* the element list (deserialize's local, then Jpeg.elems)
    result,           \* outcome of deserialize
    calls,            \* log of the edit calls made on the document
    out,              \* the bytes the writer has received
    wres,             \* outcome of serialize
    welem             \* SpecWrite: the element write is called on, by kind,
                      \* marker and payload length (NoElem elsewhere)

vars == <<data, overflow_checks, pc, state, offset, ecs_start, elems, result,
          calls, out, wres, welem>>

(***************************************************************************)
(* Bounds of the model.                                                    *)
(***************************************************************************)
MaxItems == 4
MaxTrunc == 5
MaxEditSegs == 3
MaxEdits == 3

(***************************************************************************)
(* Marker codes and integer widths the source names as literals.           *)
(***************************************************************************)
xFF == 255
xD8 == 216
xD9 == 217
xDA == 218
xFE == 254
xE0 == 224
xE7 == 231
xD0 == 208
U16 == 65536

None == <<>>
Some(v) == <<v>>

(***************************************************************************)
(* JpegElement: the six variants, with one record shape for all of them.   *)
(***************************************************************************)
Soi == [kind |-> "Soi", nr |-> 0, data |-> <<>>]
Eoi == [kind |-> "Eoi", nr |-> 0, data |-> <<>>]
Seg(nr, d) == [kind |-> "Seg", nr |-> nr, data |-> d]
Comment(d) == [kind |-> "Comment", nr |-> 0, data |-> d]
ECS(d) == [kind |-> "ECS", nr |-> 0, data |-> d]
Restart(nr) == [kind |-> "Restart", nr |-> nr, data |-> <<>>]

NoElem == [kind |-> "none", nr |-> 0, len |-> 0]

DecoderState == {"Init", "SeenFF", "InitEcs", "SeenFFEcs"}

(***************************************************************************)
(* The input buffers.  A buffer is a head, then at most MaxItems items     *)
(* (marker segments, then optionally a Start-of-Scan header followed by    *)
(* pieces of entropy-coded data), then FF D9, with up to MaxTrunc bytes    *)
(* cut off its end.                                                        *)
(***************************************************************************)
RECURSIVE Flatten(_)
Flatten(ss) == IF ss = <<>> THEN <<>> ELSE Head(ss) \o Flatten(Tail(ss))

SeqsUpTo(S, n) == UNION {[1..k -> S] : k \in 0..n}

Truncate(s, t) == IF t >= Len(s) THEN <<>> ELSE SubSeq(s, 1, Len(s) - t)

SOI_BYTES == <<255, 216>>
EOI_BYTES == <<255, 217>>
SOS_BYTES == <<255, 218, 0, 2>>
APP0_BYTES == <<255, 224, 0, 3, 65>>
APP8_BYTES == <<255, 232, 0, 2>>
DQT_BYTES == <<255, 219, 0, 2>>
COM_B_BYTES == <<255, 254, 0, 3, 66>>
COM_EMPTY_BYTES == <<255, 254, 0, 2>>
BADLEN_BYTES == <<255, 219, 0, 1>>
RSTSEG_BYTES == <<255, 208, 0, 2>>

Heads == {<<>>, SOI_BYTES, <<0, 255, 0>> \o SOI_BYTES}
SegFrags == {APP0_BYTES, COM_B_BYTES, DQT_BYTES, BADLEN_BYTES, RSTSEG_BYTES}
EcsFrags == {<<65>>, <<255, 0>>, <<255, 208>>, <<255, 65>>, <<217>>}

Scans(budget) ==
    {<<>>} \cup
    (IF budget >= 1
     THEN {SOS_BYTES \o Flatten(items) : items \in SeqsUpTo(EcsFrags, budget - 1)}
     ELSE {})

Bodies ==
    UNION { {Flatten(segs) \o scan : segs \in [1..s -> SegFrags],
                                     scan \in Scans(MaxItems - s)}
            : s \in 0..MaxItems }

Buffers == {Truncate(h \o b \o EOI_BYTES, t) : h \in Heads, b \in Bodies, t \in 0..MaxTrunc}

(***************************************************************************)
(* check_read: "Ok" when `last` bytes fit a buffer of `len` bytes.         *)
(***************************************************************************)
\* Faulty variant of check_read: the bound is off by one.
check_read_off_by_one(len, last) == IF len + 1 < last THEN "BufferTooShort" ELSE "Ok"

check_read(len, last) == IF len < last THEN "BufferTooShort" ELSE "Ok"

(***************************************************************************)
(* (u16::from_be_bytes([b0, b1]) - 2) as usize.  The subtraction is a u16  *)
(* subtraction: below 2 it panics with overflow checks and wraps without.  *)
(* ok = FALSE is the panic.                                                *)
(***************************************************************************)
from_be_bytes(b0, b1) == b0 * 256 + b1

payload_len(L, oc) ==
    IF L >= 2 THEN [ok |-> TRUE, len |-> L - 2]
    ELSE IF oc THEN [ok |-> FALSE, len |-> 0]
    ELSE [ok |-> TRUE, len |-> (L - 2) % U16]

(***************************************************************************)
(* The Rust slice d[a..b]; it panics unless a <= b <= d.len().             *)
(***************************************************************************)
SliceOk(d, a, b) == a <= b /\ b <= Len(d)
Slice(d, a, b) == SubSeq(d, a + 1, b)

(***************************************************************************)
(* The segment branch of SeenFF (lines 108-127): `off` is the offset after *)
(* the marker byte was consumed.  Returns the outcome, the new offset and  *)
(* the payload view.                                                       *)
(***************************************************************************)
read_segment(d, off, oc) ==
    IF check_read(Len(d), off + 2) # "Ok"
    THEN [result |-> "BufferTooShort", offset |-> off, payload |-> <<>>]
    ELSE IF ~SliceOk(d, off, off + 2)
    THEN [result |-> "PanicSliceIndex", offset |-> off, payload |-> <<>>]
    ELSE
      LET buf == Slice(d, off, off + 2)
          off2 == off + 2
          pl == payload_len(from_be_bytes(buf[1], buf[2]), oc)
      IN IF ~pl.ok
         THEN [result |-> "PanicOverflow", offset |-> off2, payload |-> <<>>]
         ELSE IF check_read(Len(d), off2 + pl.len) # "Ok"
         THEN [result |-> "BufferTooShort", offset |-> off2, payload |-> <<>>]
         ELSE IF ~SliceOk(d, off2, off2 + pl.len)
         THEN [result |-> "PanicSliceIndex", offset |-> off2, payload |-> <<>>]
         ELSE [result |-> "Running", offset |-> off2 + pl.len,
               payload |-> Slice(d, off2, off2 + pl.len)]

(***************************************************************************)
(* The end of the entropy run that a marker at offset - 2 closes.          *)
(***************************************************************************)
\* Faulty variant of ecs_end: only the marker code is left out of the run, its
\* FF prefix is not.
ecs_end_keeps_prefix(off) == off - 1

ecs_end(off) == off - 2

IsRestart(byte) == xD0 <= byte /\ byte < xD8

(***************************************************************************)
(* JpegElement::write.  The length field is data.len() as u16 + 2u16: the  *)
(* cast truncates, the u16 addition panics with overflow checks and wraps  *)
(* without.  A panic leaves what was already written in the writer.        *)
(***************************************************************************)
to_be_bytes(n) == <<n \div 256, n % 256>>

len_field(n, oc) ==
    LET cast == n % U16
    IN IF cast + 2 < U16 THEN [ok |-> TRUE, len |-> cast + 2]
       ELSE IF oc THEN [ok |-> FALSE, len |-> 0]
       ELSE [ok |-> TRUE, len |-> (cast + 2) % U16]

\* lines 33-35 and 39-41: the marker and the length field of a payload of n bytes
write_header(nr, n, oc) ==
    LET lf == len_field(n, oc)
    IN IF lf.ok
       THEN [ok |-> TRUE, bytes |-> <<xFF, nr>> \o to_be_bytes(lf.len)]
       ELSE [ok |-> FALSE, bytes |-> <<xFF, nr>>]

\* lines 33-36 and 39-42: the header, then the payload
write_framed(nr, d, oc) ==
    LET h == write_header(nr, Len(d), oc)
    IN IF h.ok THEN [ok |-> TRUE, bytes |-> h.bytes \o d] ELSE h

\* Faulty variant of write: entropy data is written with every stuffed pair
\* FF 00 collapsed to FF.
RECURSIVE Unstuffed(_)
Unstuffed(d) ==
    IF Len(d) < 2 THEN d
    ELSE IF d[1] = xFF /\ d[2] = 0 THEN <<xFF>> \o Unstuffed(SubSeq(d, 3, Len(d)))
    ELSE <<d[1]>> \o Unstuffed(Tail(d))

write_unstuffed(elem, oc) ==
    CASE elem.kind = "Soi" -> [ok |-> TRUE, bytes |-> <<xFF, xD8>>]
      [] elem.kind = "Eoi" -> [ok |-> TRUE, bytes |-> <<xFF, xD9>>]
      [] elem.kind = "Restart" -> [ok |-> TRUE, bytes |-> <<xFF, elem.nr>>]
      [] elem.kind = "Seg" -> write_framed(elem.nr, elem.data, oc)
      [] elem.kind = "Comment" -> write_framed(xFE, elem.data, oc)
      [] elem.kind = "ECS" -> [ok |-> TRUE, bytes |-> Unstuffed(elem.data)]

write(elem, oc) ==
    CASE elem.kind = "Soi" -> [ok |-> TRUE, bytes |-> <<xFF, xD8>>]
      [] elem.kind = "Eoi" -> [ok |-> TRUE, bytes |-> <<xFF, xD9>>]
      [] elem.kind = "Restart" -> [ok |-> TRUE, bytes |-> <<xFF, elem.nr>>]
      [] elem.kind = "Seg" -> write_framed(elem.nr, elem.data, oc)
      [] elem.kind = "Comment" -> write_framed(xFE, elem.data, oc)
      [] elem.kind = "ECS" -> [ok |-> TRUE, bytes |-> elem.data]

(***************************************************************************)
(* Jpeg::serialize: every element in order, stopping at the first failure. *)
(***************************************************************************)
RECURSIVE serialize(_, _)
serialize(es, oc) ==
    IF es = <<>> THEN [res |-> "Ok", bytes |-> <<>>]
    ELSE LET w == write(Head(es), oc)
         IN IF ~w.ok THEN [res |-> "PanicOverflow", bytes |-> w.bytes]
            ELSE LET rest == serialize(Tail(es), oc)
                 IN [res |-> rest.res, bytes |-> w.bytes \o rest.bytes]

(***************************************************************************)
(* Initial states: deserialize is about to run on a buffer.                *)
(***************************************************************************)
InitWith(B) ==
    /\ data \in B
    /\ overflow_checks \in BOOLEAN
    /\ pc = "deserialize"
    /\ state = "Init"
    /\ offset = 0
    /\ ecs_start = None
    /\ elems = <<>>
    /\ result = "Running"
    /\ calls = <<>>
    /\ out = <<>>
    /\ wres = "NotRun"
    /\ welem = NoElem

Init == InitWith(Buffers)

(***************************************************************************)
(* One iteration of deserialize's loop.                                    *)
(***************************************************************************)
Decoding == pc = "deserialize" /\ result = "Running"

\* line 86: data[offset] with offset >= data.len() panics.
ReadPastEnd ==
    /\ Decoding
    /\ offset >= Len(data)
    /\ result' = "PanicIndexOutOfBounds"
    /\ UNCHANGED <<welem, data, overflow_checks, pc, state, offset, ecs_start, elems,
                   calls, out, wres>>

StepInit ==
    /\ Decoding
    /\ offset < Len(data)
    /\ state = "Init"
    /\ offset' = offset + 1
    /\ state' = IF data[offset + 1] = xFF THEN "SeenFF" ELSE "Init"
    /\ UNCHANGED <<welem, data, overflow_checks, pc, ecs_start, elems, result, calls, out, wres>>

\* Faulty variant of state_after_segment: the Start-of-Scan segment is taken
\* for an ordinary one.
state_after_segment_forgets_scan(byte) == "Init"

\* deserialize, lines 121-126: Init after a segment, InitEcs after Seg(0xda).
state_after_segment(byte) == IF byte = xDA THEN "InitEcs" ELSE "Init"

StepSeenFF ==
    /\ Decoding
    /\ offset < Len(data)
    /\ state = "SeenFF"
    /\ LET byte == data[offset + 1]
           off == offset + 1
       IN CASE byte = 0 ->
                 /\ state' = "Init"
                 /\ offset' = off
                 /\ UNCHANGED <<pc, ecs_start, elems, result>>
            [] byte = xD8 ->
                 /\ elems' = Append(elems, Soi)
                 /\ state' = "Init"
                 /\ offset' = off
                 /\ UNCHANGED <<pc, ecs_start, result>>
            [] byte = xD9 ->
                 /\ elems' = Append(elems, Eoi)
                 /\ offset' = off
                 /\ result' = "Ok"
                 /\ pc' = "edit"
                 /\ UNCHANGED <<state, ecs_start>>
            [] OTHER ->
                 LET r == read_segment(data, off, overflow_checks)
                 IN /\ offset' = r.offset
                    /\ result' = r.result
                    /\ IF r.result = "Running"
                       THEN /\ elems' = Append(elems, IF byte = xFE THEN Comment(r.payload)
                                                      ELSE Seg(byte, r.payload))
                            /\ state' = state_after_segment(byte)
                            /\ ecs_start' = IF byte = xDA THEN Some(r.offset) ELSE ecs_start
                       ELSE UNCHANGED <<elems, state, ecs_start>>
                    /\ UNCHANGED pc
    /\ UNCHANGED <<welem, data, overflow_checks, calls, out, wres>>

StepInitEcs ==
    /\ Decoding
    /\ offset < Len(data)
    /\ state = "InitEcs"
    /\ offset' = offset + 1
    /\ state' = IF data[offset + 1] = xFF THEN "SeenFFEcs" ELSE "InitEcs"
    /\ UNCHANGED <<welem, data, overflow_checks, pc, ecs_start, elems, result, calls, out, wres>>

\* lines 141 and 147: &data[ecs_start.unwrap()..offset-2]
close_run(es, d, start, off) ==
    IF start = None THEN [result |-> "PanicUnwrapNone", elems |-> es]
    ELSE IF ~SliceOk(d, start[1], ecs_end(off))
    THEN [result |-> "PanicSliceIndex", elems |-> es]
    ELSE [result |-> "Running", elems |-> Append(es, ECS(Slice(d, start[1], ecs_end(off))))]

StepSeenFFEcs ==
    /\ Decoding
    /\ offset < Len(data)
    /\ state = "SeenFFEcs"
    /\ LET byte == data[offset + 1]
           off == offset + 1
       IN /\ offset' = off
          /\ CASE byte = 0 ->
                    /\ state' = "InitEcs"
                    /\ UNCHANGED <<pc, ecs_start, elems, result>>
               [] byte = xD9 ->
                    LET c == close_run(elems, data, ecs_start, off)
                    IN IF c.result = "Running"
                       THEN /\ elems' = Append(c.elems, Eoi)
                            /\ result' = "Ok"
                            /\ pc' = "edit"
                            /\ UNCHANGED <<state, ecs_start>>
                       ELSE /\ result' = c.result
                            /\ UNCHANGED <<pc, state, ecs_start, elems>>
               [] IsRestart(byte) ->
                    LET c == close_run(elems, data, ecs_start, off)
                    IN IF c.result = "Running"
                       THEN /\ elems' = Append(c.elems, Restart(byte))
                            /\ state' = "InitEcs"
                            /\ ecs_start' = Some(off)
                            /\ UNCHANGED <<pc, result>>
                       ELSE /\ result' = c.result
                            /\ UNCHANGED <<pc, state, ecs_start, elems>>
               [] OTHER ->
                    \* lines 145-152: no assignment to state, it stays SeenFFEcs
                    UNCHANGED <<pc, state, ecs_start, elems, result>>
    /\ UNCHANGED <<welem, data, overflow_checks, calls, out, wres>>

(***************************************************************************)
(* main, lines 301-302: the document is serialized to the writer.          *)
(***************************************************************************)
Serialize ==
    /\ pc = "edit"
    /\ LET s == serialize(elems, overflow_checks)
       IN /\ out' = s.bytes
          /\ wres' = s.res
    /\ pc' = "done"
    /\ UNCHANGED <<welem, data, overflow_checks, state, offset, ecs_start, elems, result, calls>>

Next ==
    \/ ReadPastEnd
    \/ StepInit
    \/ StepSeenFF
    \/ StepInitEcs
    \/ StepSeenFFEcs
    \/ Serialize

Spec == Init /\ [][Next]_vars

(***************************************************************************)
(* The documents the edit operations are run on come from these buffers:   *)
(* FF D8, at most MaxEditSegs segments, optionally a scan, FF D9; and the  *)
(* empty buffer.  The comment payloads given to set_comment differ from    *)
(* every payload the buffers hold.                                         *)
(***************************************************************************)
EditSegFrags == {APP0_BYTES, DQT_BYTES, COM_B_BYTES, COM_EMPTY_BYTES, APP8_BYTES}

EditBuffers ==
    {SOI_BYTES \o Flatten(segs) \o scan \o EOI_BYTES :
         segs \in SeqsUpTo(EditSegFrags, MaxEditSegs),
         scan \in {<<>>, SOS_BYTES \o <<65>>}}
    \cup {<<>>}

CommentArgs == {<<67>>, <<68, 68>>}

(***************************************************************************)
(* Vec::remove(i) and Vec::insert(i, e), with 1-based positions.           *)
(***************************************************************************)
remove(es, i) == SubSeq(es, 1, i - 1) \o SubSeq(es, i + 1, Len(es))
insert(es, i, e) == SubSeq(es, 1, i - 1) \o <<e>> \o SubSeq(es, i, Len(es))

(***************************************************************************)
(* Jpeg::delete_comment: the position of the first Comment from position i *)
(* on (0: none), and the call's effect and return value.                   *)
(***************************************************************************)
RECURSIVE find_comment(_, _)
find_comment(es, i) ==
    IF i > Len(es) THEN 0
    ELSE IF es[i].kind = "Comment" THEN i
    ELSE find_comment(es, i + 1)

\* Faulty variant of delete_comment: the last Comment is removed, not the first.
delete_comment_last(es) ==
    LET S == {i \in 1..Len(es) : es[i].kind = "Comment"}
    IN IF S = {} THEN [elems |-> es, ret |-> None]
       ELSE LET i == CHOOSE x \in S : \A y \in S : y <= x
            IN [elems |-> remove(es, i), ret |-> Some(es[i].data)]

\* Faulty variant of delete_comment: the payload is returned, the element is kept.
delete_comment_keep(es) ==
    LET i == find_comment(es, 1)
    IN IF i = 0 THEN [elems |-> es, ret |-> None]
       ELSE [elems |-> es, ret |-> Some(es[i].data)]

delete_comment(es) ==
    LET i == find_comment(es, 1)
    IN IF i = 0 THEN [elems |-> es, ret |-> None]
       ELSE [elems |-> remove(es, i), ret |-> Some(es[i].data)]

(***************************************************************************)
(* Jpeg::set_comment: delete_comment, then the new Comment right after the *)
(* first Seg(0xe0, _), or pushed at the end when there is none.            *)
(***************************************************************************)
RECURSIVE find_e0(_, _)
find_e0(es, i) ==
    IF i > Len(es) THEN 0
    ELSE IF es[i].kind = "Seg" /\ es[i].nr = xE0 THEN i
    ELSE find_e0(es, i + 1)

\* Faulty variant of set_comment: the comment goes in front of the 0xe0 segment.
set_comment_before_e0(es, p) ==
    LET d == delete_comment(es)
        idx == find_e0(d.elems, 1)
    IN [elems |-> IF idx # 0 THEN insert(d.elems, idx, Comment(p))
                  ELSE Append(d.elems, Comment(p)),
        ret |-> d.ret]

\* Faulty variant of set_comment: without a 0xe0 segment the comment goes in front of
\* the last element.
set_comment_before_last(es, p) ==
    LET d == delete_comment(es)
        idx == find_e0(d.elems, 1)
    IN [elems |-> IF idx # 0 THEN insert(d.elems, idx + 1, Comment(p))
                  ELSE IF d.elems = <<>> THEN <<Comment(p)>>
                  ELSE insert(d.elems, Len(d.elems), Comment(p)),
        ret |-> d.ret]

\* Faulty variant of set_comment: the old comment is looked up but not removed.
set_comment_no_delete(es, p) ==
    LET d == delete_comment(es)
        idx == find_e0(es, 1)
    IN [elems |-> IF idx # 0 THEN insert(es, idx + 1, Comment(p))
                  ELSE Append(es, Comment(p)),
        ret |-> d.ret]

set_comment(es, p) ==
    LET d == delete_comment(es)
        idx == find_e0(d.elems, 1)
    IN [elems |-> IF idx # 0 THEN insert(d.elems, idx + 1, Comment(p))
                  ELSE Append(d.elems, Comment(p)),
        ret |-> d.ret]

(***************************************************************************)
(* main, lines 283-292: the anonymize filter drops Seg(tag, _) with tag in *)
(* 0xe0..0xe7 (exclusive of 0xe7) and keeps everything else.               *)
(***************************************************************************)
\* Faulty variant of anonymize: comments are dropped with the segments.
anonymize_drops_comments(es) ==
    SelectSeq(es, LAMBDA e : ~(e.kind = "Comment"
                               \/ (e.kind = "Seg" /\ xE0 <= e.nr /\ e.nr < xE7)))

anonymize(es) ==
    SelectSeq(es, LAMBDA e : ~(e.kind = "Seg" /\ xE0 <= e.nr /\ e.nr < xE7))

(***************************************************************************)
(* The edit calls on a decoded document, each logged with the document it  *)
(* was made on and what it returned.                                       *)
(***************************************************************************)
Call(op, arg, ret) == [op |-> op, arg |-> arg, ret |-> ret, before |-> elems]

Editing == pc = "edit" /\ Len(calls) < MaxEdits

DeleteComment ==
    /\ Editing
    /\ LET r == delete_comment(elems)
       IN /\ elems' = r.elems
          /\ calls' = Append(calls, Call("delete_comment", <<>>, r.ret))
    /\ UNCHANGED <<welem, data, overflow_checks, pc, state, offset, ecs_start, result, out, wres>>

SetCommentFrom(args) ==
    /\ Editing
    /\ \E p \in args :
         LET r == set_comment(elems, p)
         IN /\ elems' = r.elems
            /\ calls' = Append(calls, Call("set_comment", p, r.ret))
    /\ UNCHANGED <<welem, data, overflow_checks, pc, state, offset, ecs_start, result, out, wres>>

SetComment == SetCommentFrom(CommentArgs)

Anonymize ==
    /\ Editing
    /\ elems' = anonymize(elems)
    /\ calls' = Append(calls, Call("anonymize", <<>>, None))
    /\ UNCHANGED <<welem, data, overflow_checks, pc, state, offset, ecs_start, result, out, wres>>

InitEdit == InitWith(EditBuffers)

NextEdit ==
    \/ ReadPastEnd
    \/ StepInit
    \/ StepSeenFF
    \/ StepInitEcs
    \/ StepSeenFFEcs
    \/ DeleteComment
    \/ SetComment
    \/ Anonymize
    \/ Serialize

SpecEdit == InitEdit /\ [][NextEdit]_vars

(***************************************************************************)
(* JpegElement::write on a Seg or Comment whose payload length is around   *)
(* the limit of the 16-bit length field.  What write puts in front of the  *)
(* payload depends on the payload's length only, so the element is given   *)
(* by kind, marker and payload length, and `out` receives the marker and   *)
(* the length field (the payload bytes that follow are left out).  Such an *)
(* element exists after set_comment was given a comment of that length.    *)
(***************************************************************************)
FittingLens == {0, 1, 2, 3, U16 - 5, U16 - 4, U16 - 3}
LargeLens == FittingLens \cup {U16 - 2, U16 - 1, U16, U16 + 1, U16 + 2, U16 + 7}

\* A decoded Seg payload has at most 0xFFFF - 2 bytes; a comment handed to
\* set_comment has any length.
FramedElems ==
    {[kind |-> "Seg", nr |-> m, len |-> n] : m \in {xE0, xDA}, n \in FittingLens}
    \cup {[kind |-> "Comment", nr |-> 0, len |-> n] : n \in LargeLens}

InitWrite ==
    /\ welem \in FramedElems
    /\ overflow_checks \in BOOLEAN
    /\ pc = "write"
    /\ data = <<>>
    /\ state = "Init"
    /\ offset = 0
    /\ ecs_start = None
    /\ elems = <<>>
    /\ result = "Ok"
    /\ calls = <<>>
    /\ out = <<>>
    /\ wres = "NotRun"

WriteHeader ==
    /\ pc = "write"
    /\ LET h == write_header(IF welem.kind = "Comment" THEN xFE ELSE welem.nr,
                             welem.len, overflow_checks)
       IN /\ out' = h.bytes
          /\ wres' = IF h.ok THEN "Ok" ELSE "PanicOverflow"
    /\ pc' = "done"
    /\ UNCHANGED <<welem, data, overflow_checks, state, offset, ecs_start, elems, result, calls>>

NextWrite == WriteHeader

SpecWrite == InitWrite /\ [][NextWrite]_vars

(***************************************************************************)
(* The wire format of spec sections 4.1 and 6, as a recognizer: FF D8,     *)
(* then marker segments (FF, a marker code, a 2-byte big-endian length     *)
(* that counts itself, the payload); after a Start-of-Scan segment (0xDA)  *)
(* entropy-coded data, where FF 00, FF D0..D7 and FF followed by any other *)
(* byte but D9 belong to the scan; FF D9 ends the stream and is its end.   *)
(***************************************************************************)
RECURSIVE WfEcs(_, _)
WfEcs(B, i) ==
    IF i > Len(B) THEN FALSE
    ELSE IF B[i] # 255 THEN WfEcs(B, i + 1)
    ELSE IF i + 1 > Len(B) THEN FALSE
    ELSE IF B[i + 1] = 217 THEN i + 1 = Len(B)
    ELSE WfEcs(B, i + 2)

RECURSIVE WfSegs(_, _)
WfSegs(B, i) ==
    IF i + 1 > Len(B) \/ B[i] # 255 THEN FALSE
    ELSE LET m == B[i + 1]
         IN IF m = 217 THEN i + 1 = Len(B)
            ELSE IF m \in {0, 216, 255} \/ (208 <= m /\ m <= 215) THEN FALSE
            ELSE IF i + 3 > Len(B) THEN FALSE
            ELSE LET L == B[i + 2] * 256 + B[i + 3]
                 IN IF L < 2 \/ i + 1 + L > Len(B) THEN FALSE
                    ELSE IF m = 218 THEN WfEcs(B, i + 2 + L)
                    ELSE WfSegs(B, i + 2 + L)

WellFormed(B) == Len(B) >= 2 /\ B[1] = 255 /\ B[2] = 216 /\ WfSegs(B, 3)

(***************************************************************************)
(* C1. Round trip: whenever a well-formed buffer was decoded and the       *)
(* document was serialized unedited, the bytes written are the buffer.     *)
(***************************************************************************)
C1_RoundTrip ==
    (pc = "done" /\ calls = <<>> /\ WellFormed(data)) => (wres = "Ok" /\ out = data)

(***************************************************************************)
(* C2. Whenever the decoder needs a byte and the input has run out (no     *)
(* EndOfImage consumed yet), it ends with BufferTooShort: no panic, no     *)
(* document.                                                               *)
(***************************************************************************)
C2_GracefulWhenInputRunsOut ==
    [][(Decoding /\ offset >= Len(data))
         => (result' = "BufferTooShort" /\ pc' = "deserialize")]_vars

(***************************************************************************)
(* C3. A buffer that ends inside a segment's length field, or inside its   *)
(* payload, decodes to BufferTooShort: no document is returned and no      *)
(* slice or index goes past the end (which would be a panic).              *)
(***************************************************************************)
TruncatedInSegment ==
    /\ Decoding
    /\ state = "SeenFF"
    /\ offset < Len(data)
    /\ data[offset + 1] \notin {0, 216, 217}
    /\ LET remaining == Len(data) - (offset + 1)
       IN \/ remaining < 2
          \/ LET L == data[offset + 2] * 256 + data[offset + 3]
             IN L >= 2 /\ remaining - 2 < L - 2

C3_TruncatedSegmentIsBufferTooShort ==
    [][TruncatedInSegment
         => (result' = "BufferTooShort" /\ pc' = "deserialize" /\ elems' = elems)]_vars

\* Reached: the length field was read and the payload it announces is cut short.
C3_Witness ==
    /\ result = "BufferTooShort"
    /\ pc = "deserialize"
    /\ offset >= 4
    /\ Len(data) >= offset
    /\ data[offset - 3] = 255
    /\ LET L == data[offset - 1] * 256 + data[offset]
       IN L >= 3 /\ Len(data) < offset + (L - 2) /\ Len(data) >= offset

(***************************************************************************)
(* Vocabulary of the claims about the edit operations.  After(i) is the    *)
(* document as call i left it; Decoded is the document deserialize         *)
(* returned.                                                               *)
(***************************************************************************)
After(i) == IF i < Len(calls) THEN calls[i + 1].before ELSE elems
Decoded == IF calls = <<>> THEN elems ELSE calls[1].before

CommentPositions(es) == {i \in 1..Len(es) : es[i].kind = "Comment"}
E0Positions(es) == {i \in 1..Len(es) : es[i].kind = "Seg" /\ es[i].nr = 224}
Least(S) == CHOOSE x \in S : \A y \in S : x <= y
Without(es, i) == [k \in 1..(Len(es) - 1) |-> IF k < i THEN es[k] ELSE es[k + 1]]
WithoutFirstComment(es) ==
    IF CommentPositions(es) = {} THEN es ELSE Without(es, Least(CommentPositions(es)))
Framed(es) == es # <<>> /\ es[1].kind = "Soi" /\ es[Len(es)].kind = "Eoi"
FramedBytes(b) ==
    Len(b) >= 4 /\ b[1] = 255 /\ b[2] = 216 /\ b[Len(b) - 1] = 255 /\ b[Len(b)] = 217

(***************************************************************************)
(* C4. Edit operations preserve the framing: when the decoded document     *)
(* starts with StartOfImage and ends with EndOfImage, so does the document *)
(* after any sequence of delete_comment, set_comment and anonymize calls,  *)
(* and its serialization starts with FF D8 and ends with FF D9.            *)
(***************************************************************************)
C4_EditsPreserveFraming ==
    (pc \in {"edit", "done"} /\ Framed(Decoded))
        => /\ Framed(elems)
           /\ (pc = "done" /\ wres = "Ok") => FramedBytes(out)

(***************************************************************************)
(* C5. set_comment(p) on a document with a 0xE0 segment: afterwards the    *)
(* element right after the first 0xE0 segment is Comment(p), and taking it *)
(* out again leaves the document as it was without its first Comment.      *)
(***************************************************************************)
C5_SetCommentAfterE0 ==
    \A i \in 1..Len(calls) :
        (calls[i].op = "set_comment" /\ E0Positions(calls[i].before) # {})
            => LET a == After(i)
                   j == Least(E0Positions(a))
               IN /\ E0Positions(a) # {}
                  /\ j < Len(a)
                  /\ a[j + 1] = Comment(calls[i].arg)
                  /\ Without(a, j + 1) = WithoutFirstComment(calls[i].before)

\* Reached: set_comment on a document whose 0xE0 segment is directly followed
\* by a 0xDB segment, with an old comment further on.
C5_Witness ==
    /\ Len(calls) >= 1
    /\ calls[1].op = "set_comment"
    /\ LET b == calls[1].before
       IN /\ Len(b) >= 5
          /\ b[2] = Seg(224, <<65>>)
          /\ b[3] = Seg(219, <<>>)
          /\ b[4].kind = "Comment"
    /\ elems[3] = Comment(calls[1].arg)
    /\ elems[4] = Seg(219, <<>>)

(***************************************************************************)
(* C6. set_comment(p) on a document with no 0xE0 segment: afterwards the   *)
(* last element is Comment(p) and the elements in front of it are the      *)
(* document as it was without its first Comment.                           *)
(***************************************************************************)
C6_SetCommentAppends ==
    \A i \in 1..Len(calls) :
        (calls[i].op = "set_comment" /\ E0Positions(calls[i].before) = {})
            => LET a == After(i)
               IN /\ a # <<>>
                  /\ a[Len(a)] = Comment(calls[i].arg)
                  /\ SubSeq(a, 1, Len(a) - 1) = WithoutFirstComment(calls[i].before)

\* Reached: set_comment on a decoded document with no 0xE0 segment that held a
\* comment and ended with EndOfImage.
C6_Witness ==
    /\ Len(calls) >= 1
    /\ calls[1].op = "set_comment"
    /\ E0Positions(calls[1].before) = {}
    /\ CommentPositions(calls[1].before) # {}
    /\ Framed(calls[1].before)
    /\ elems[Len(elems)] = Comment(calls[1].arg)

(***************************************************************************)
(* C7. set_comment(p) replaces the comment: after the call the first       *)
(* Comment of the document is Comment(p), and a delete_comment or          *)
(* set_comment made right after it returns Some(p).                        *)
(***************************************************************************)
SetCommentReplaces(i) ==
    LET a == After(i)
    IN /\ CommentPositions(a) # {}
       /\ a[Least(CommentPositions(a))] = Comment(calls[i].arg)
       /\ (i < Len(calls) /\ calls[i + 1].op \in {"delete_comment", "set_comment"})
              => calls[i + 1].ret = Some(calls[i].arg)

\* The claim as stated: on any decoded document.
C7_SetCommentReplaces ==
    \A i \in 1..Len(calls) : calls[i].op = "set_comment" => SetCommentReplaces(i)

\* The claim as amended: on a document with at most one Comment.
C7_SetCommentReplacesSingle ==
    \A i \in 1..Len(calls) :
        (calls[i].op = "set_comment" /\ Cardinality(CommentPositions(calls[i].before)) <= 1)
            => SetCommentReplaces(i)

\* Reached: set_comment replaced the only comment, which stood before the 0xE0
\* segment, and the delete_comment after it returned the new payload.
C7_Witness ==
    /\ Len(calls) = 2
    /\ calls[1].op = "set_comment"
    /\ Cardinality(CommentPositions(calls[1].before)) = 1
    /\ E0Positions(calls[1].before) # {}
    /\ Least(CommentPositions(calls[1].before)) < Least(E0Positions(calls[1].before))
    /\ calls[1].ret # None
    /\ calls[2].op = "delete_comment"
    /\ calls[2].ret = Some(calls[1].arg)

(***************************************************************************)
(* C8. delete_comment() removes the first Comment and nothing else, and    *)
(* returns its payload; with no Comment it returns None and changes        *)
(* nothing.                                                                *)
(***************************************************************************)
C8_DeleteRemovesFirstComment ==
    \A i \in 1..Len(calls) :
        calls[i].op = "delete_comment"
            => LET b == calls[i].before
               IN IF CommentPositions(b) = {}
                  THEN calls[i].ret = None /\ After(i) = b
                  ELSE LET k == Least(CommentPositions(b))
                       IN /\ calls[i].ret = Some(b[k].data)
                          /\ After(i) = Without(b, k)

\* Reached: delete_comment on a document with two different comments.
C8_Witness ==
    /\ Len(calls) >= 1
    /\ calls[1].op = "delete_comment"
    /\ \E k, l \in CommentPositions(calls[1].before) :
           k < l /\ calls[1].before[k] # calls[1].before[l]
    /\ Cardinality(CommentPositions(elems)) >= 1

(***************************************************************************)
(* C9. delete_comment() twice in a row returns Some(payload), then None.   *)
(***************************************************************************)
SomeThenNone(i) == calls[i].ret # None /\ calls[i + 1].ret = None

\* The claim as stated: on any document that contains a Comment.
C9_DeleteTwice ==
    \A i \in 1..(Len(calls) - 1) :
        (/\ calls[i].op = "delete_comment"
         /\ calls[i + 1].op = "delete_comment"
         /\ CommentPositions(calls[i].before) # {}) => SomeThenNone(i)

\* The claim as amended: on a document that contains exactly one Comment.
C9_DeleteTwiceSingle ==
    \A i \in 1..(Len(calls) - 1) :
        (/\ calls[i].op = "delete_comment"
         /\ calls[i + 1].op = "delete_comment"
         /\ Cardinality(CommentPositions(calls[i].before)) = 1) => SomeThenNone(i)

\* Reached: two delete_comment calls in a row on a one-comment document.
C9_Witness ==
    /\ Len(calls) >= 2
    /\ calls[1].op = "delete_comment"
    /\ calls[2].op = "delete_comment"
    /\ Cardinality(CommentPositions(calls[1].before)) = 1
    /\ calls[1].ret = Some(<<66>>)
    /\ calls[2].ret = None

(***************************************************************************)
(* C10. Writing a Segment or Comment whose payload length plus 2 does not  *)
(* fit 16 bits fails with PayloadTooLarge (no wrapped or truncated length  *)
(* field, no panic); when it fits, the write succeeds and the length field *)
(* is the payload length plus 2, big-endian.                               *)
(***************************************************************************)
C10_PayloadTooLargeIsAnError ==
    (pc = "done" /\ welem.kind \in {"Seg", "Comment"})
        => IF welem.len + 2 >= 65536
           THEN wres = "PayloadTooLarge"
           ELSE /\ wres = "Ok"
                /\ out = <<255, IF welem.kind = "Comment" THEN 254 ELSE welem.nr,
                           (welem.len + 2) \div 256, (welem.len + 2) % 256>>

(***************************************************************************)
(* Vocabulary of the claims about the scan.  In a well-formed buffer B     *)
(* with a Start-of-Scan segment, SosIndex is where that segment's FF is,   *)
(* ScanHeader its payload and ScanBytes the bytes between it and the final *)
(* FF D9.  A run is stuffed-only when each FF in it is followed by 00.     *)
(***************************************************************************)
RECURSIVE SosIndex(_, _)
SosIndex(B, i) ==
    IF i + 3 > Len(B) THEN 0
    ELSE IF B[i + 1] = 218 THEN i
    ELSE SosIndex(B, i + 2 + B[i + 2] * 256 + B[i + 3])

HasScan(B) == WellFormed(B) /\ SosIndex(B, 3) # 0
SosLength(B) == LET i == SosIndex(B, 3) IN B[i + 2] * 256 + B[i + 3]
ScanHeader(B) == LET i == SosIndex(B, 3) IN SubSeq(B, i + 4, i + 1 + SosLength(B))
ScanBytes(B) == LET i == SosIndex(B, 3) IN SubSeq(B, i + 2 + SosLength(B), Len(B) - 2)
StuffedOnly(run) ==
    \A k \in 1..Len(run) : run[k] = 255 => (k < Len(run) /\ run[k + 1] = 0)
IsRst(b) == 208 <= b /\ b <= 215
LastElems(n) == SubSeq(elems, Len(elems) - n + 1, Len(elems))

(***************************************************************************)
(* C11. Restart boundary: a scan FF DA <header> <run1> FF Dn <run2> FF D9  *)
(* (n in 0..7, each FF of a run stuffed) decodes, in this order, to        *)
(* Seg(0xDA, header), ECS(run1), Restart(0xDn), ECS(run2), Eoi: each view  *)
(* holds the bytes between its boundaries and none of the marker bytes.    *)
(***************************************************************************)
RestartSplits(scan) ==
    {r \in 1..(Len(scan) - 1) :
        /\ scan[r] = 255
        /\ IsRst(scan[r + 1])
        /\ StuffedOnly(SubSeq(scan, 1, r - 1))
        /\ StuffedOnly(SubSeq(scan, r + 2, Len(scan)))}

C11_RestartBoundary ==
    (pc \in {"edit", "done"} /\ calls = <<>> /\ HasScan(data))
        => \A r \in RestartSplits(ScanBytes(data)) :
              LET scan == ScanBytes(data)
              IN /\ Len(elems) >= 5
                 /\ LastElems(5) = << Seg(218, ScanHeader(data)),
                                      ECS(SubSeq(scan, 1, r - 1)),
                                      Restart(scan[r + 1]),
                                      ECS(SubSeq(scan, r + 2, Len(scan))),
                                      Eoi >>

\* Reached: a decoded scan with one restart marker between two non-empty runs.
C11_Witness ==
    /\ pc = "edit"
    /\ HasScan(data)
    /\ \E r \in RestartSplits(ScanBytes(data)) : r > 1 /\ r + 1 < Len(ScanBytes(data))
    /\ elems[Len(elems) - 2].kind = "Restart"

(***************************************************************************)
(* C12. Stuffed byte preservation: when the scan holds FF 00 (and every FF *)
(* in it starts FF 00 or a restart marker), the decoder emits nothing for  *)
(* FF 00: behind Seg(0xDA) come one ECS per run with one Restart between   *)
(* two runs, then Eoi; the ECS views and restart markers put together are  *)
(* the scan, so each FF 00 lies inside one view; and serialization writes  *)
(* the buffer back.                                                        *)
(***************************************************************************)
StrictScan(scan) ==
    \A k \in 1..Len(scan) :
        scan[k] = 255 => (k < Len(scan) /\ (scan[k + 1] = 0 \/ IsRst(scan[k + 1])))
StuffedAt(scan) == {k \in 1..(Len(scan) - 1) : scan[k] = 255 /\ scan[k + 1] = 0}
RestartsAt(scan) == {k \in 1..(Len(scan) - 1) : scan[k] = 255 /\ IsRst(scan[k + 1])}
ScanWire(e) == IF e.kind = "Restart" THEN <<255, e.nr>> ELSE e.data

C12_StuffedBytePreserved ==
    (/\ pc \in {"edit", "done"}
     /\ calls = <<>>
     /\ HasScan(data)
     /\ StrictScan(ScanBytes(data))
     /\ StuffedAt(ScanBytes(data)) # {})
        => LET scan == ScanBytes(data)
               n == 2 * Cardinality(RestartsAt(scan)) + 1
               tail == LastElems(n)
           IN /\ Len(elems) >= n + 2
              /\ elems[Len(elems)] = Eoi
              /\ elems[Len(elems) - n - 1] = Seg(218, ScanHeader(data))
              /\ LET runs == SubSeq(elems, Len(elems) - n, Len(elems) - 1)
                 IN /\ \A k \in 1..n : runs[k].kind = IF k % 2 = 1 THEN "ECS" ELSE "Restart"
                    /\ Flatten([k \in 1..n |-> ScanWire(runs[k])]) = scan
              /\ pc = "done" => (wres = "Ok" /\ out = data)

\* Reached: a serialized document whose scan holds FF 00 between other bytes
\* and a restart marker.
C12_Witness ==
    /\ pc = "done"
    /\ HasScan(data)
    /\ StrictScan(ScanBytes(data))
    /\ \E k \in StuffedAt(ScanBytes(data)) : k > 1
    /\ RestartsAt(ScanBytes(data)) # {}
    /\ out = data

(***************************************************************************)
(* C13. Metadata stripping removes exactly the Seg elements whose marker   *)
(* lies in the range the filter is given, 0xe0 up to but not including     *)
(* 0xe7; every other element is retained, unchanged and in order: the      *)
(* j-th element afterwards is the j-th retained element of the document    *)
(* before.                                                                 *)
(***************************************************************************)
InStripRange(e) == e.kind = "Seg" /\ 224 <= e.nr /\ e.nr < 231
Retained(b) == {k \in 1..Len(b) : ~InStripRange(b[k])}
NthRetained(b, j) ==
    CHOOSE k \in Retained(b) : Cardinality({m \in Retained(b) : m <= k}) = j

C13_StripRemovesOnlyRange ==
    \A i \in 1..Len(calls) :
        calls[i].op = "anonymize"
            => LET b == calls[i].before
               IN /\ Len(After(i)) = Cardinality(Retained(b))
                  /\ \A j \in 1..Len(After(i)) : After(i)[j] = b[NthRetained(b, j)]

\* Reached: stripping a document that holds a segment in the range, a segment
\* outside it and a comment.
C13_Witness ==
    \E i \in 1..Len(calls) :
        /\ calls[i].op = "anonymize"
        /\ \E k \in 1..Len(calls[i].before) : InStripRange(calls[i].before[k])
        /\ \E k \in 1..Len(calls[i].before) : calls[i].before[k].kind = "Comment"
        /\ \E k \in 1..Len(calls[i].before) :
              calls[i].before[k].kind = "Seg" /\ ~InStripRange(calls[i].before[k])
        /\ Len(After(i)) < Len(calls[i].before)

(***************************************************************************)
(* C14. Anonymize deletes all APP segments: after the anonymize step the   *)
(* document holds no Seg whose marker is in 0xE0..0xEF.                    *)
(***************************************************************************)
C14_AnonymizeRemovesAllApp ==
    \A i \in 1..Len(calls) :
        calls[i].op = "anonymize"
            => \A k \in 1..Len(After(i)) :
                  ~(After(i)[k].kind = "Seg" /\ 224 <= After(i)[k].nr /\ After(i)[k].nr <= 239)

(***************************************************************************)
(* C15. Inside a scan, after FF, a byte that is none of 0x00, 0xD9 and     *)
(* 0xD0..0xD7 sends the decoder back to InitEcs and closes no run, so the  *)
(* byte after it is read as ordinary entropy content.                      *)
(***************************************************************************)
C15_OtherByteResumesEntropy ==
    [][(/\ Decoding
        /\ state = "SeenFFEcs"
        /\ offset < Len(data)
        /\ data[offset + 1] # 0
        /\ data[offset + 1] # 217
        /\ ~IsRst(data[offset + 1]))
            => (state' = "InitEcs" /\ elems' = elems /\ result' = "Running")]_vars

(***************************************************************************)
(* C16. Every document a successful decode returns has Soi as its first    *)
(* element and Eoi as its last and only Eoi, and its serialization starts  *)
(* with FF D8 and ends with FF D9.                                         *)
(***************************************************************************)
C16_SoiFirstEoiLast ==
    (pc \in {"edit", "done"} /\ calls = <<>>)
        => /\ Len(elems) >= 2
           /\ elems[1] = Soi
           /\ elems[Len(elems)] = Eoi
           /\ \A k \in 1..(Len(elems) - 1) : elems[k].kind # "Eoi"
           /\ (pc = "done" /\ wres = "Ok")
                 => /\ Len(out) >= 4
                    /\ SubSeq(out, 1, 2) = <<255, 216>>
                    /\ SubSeq(out, Len(out) - 1, Len(out)) = <<255, 217>>

(***************************************************************************)
(* C17. A step that reads a segment or comment with length field L emits   *)
(* an element whose payload has exactly L - 2 bytes, for every L the       *)
(* stream can carry: for L < 2 the subtraction neither panics nor wraps    *)
(* into a payload of another length.                                       *)
(***************************************************************************)
C17_PayloadLengthIsLMinus2 ==
    [][(/\ Decoding
        /\ state = "SeenFF"
        /\ offset + 3 <= Len(data)
        /\ data[offset + 1] \notin {0, 216, 217})
            => LET L == data[offset + 2] * 256 + data[offset + 3]
               IN /\ result' # "PanicOverflow"
                  /\ Len(elems') > Len(elems)
                        => Len(elems'[Len(elems')].data) = L - 2]_vars

(***************************************************************************)
(* C18. No Seg element of a decoded document carries a marker that has a   *)
(* variant of its own or is the prefix: none of 0xD8, 0xD9, 0xFE,          *)
(* 0xD0..0xD7 and 0xFF.                                                    *)
(***************************************************************************)
C18_SegMarkerExcludesDedicated ==
    (pc \in {"edit", "done"} /\ calls = <<>>)
        => \A k \in 1..Len(elems) :
              elems[k].kind = "Seg"
                  => (elems[k].nr \notin {216, 217, 254, 255} /\ ~IsRst(elems[k].nr))

(***************************************************************************)
(* C19. Once Seg(0xDA) is emitted the decoder stays in the entropy states: *)
(* every element after the first Seg(0xDA) is ECS, Restart or Eoi, none is *)
(* a Seg, a Comment or Soi, and no ECS comes before it.  Before Seg(0xDA)  *)
(* the decoder is in Init or SeenFF.                                       *)
(***************************************************************************)
SosPositions == {k \in 1..Len(elems) : elems[k].kind = "Seg" /\ elems[k].nr = 218}

C19_ScanIsTerminal ==
    calls = <<>>
        => IF SosPositions = {}
           THEN /\ \A k \in 1..Len(elems) : elems[k].kind \notin {"ECS", "Restart"}
                /\ Decoding => state \in {"Init", "SeenFF"}
           ELSE /\ \A k \in 1..Len(elems) :
                     /\ k > Least(SosPositions) => elems[k].kind \in {"ECS", "Restart", "Eoi"}
                     /\ k < Least(SosPositions) => elems[k].kind \notin {"ECS", "Restart"}
                /\ Decoding => state \in {"InitEcs", "SeenFFEcs"}

\* Reached: a decoded document whose scan held FF followed by a byte that would
\* start a segment outside a scan, and a restart marker.
C19_Witness ==
    /\ pc = "edit"
    /\ SosPositions # {}
    /\ \E k \in 1..(Len(data) - 3) :
          /\ k > 6
          /\ data[k] = 255
          /\ data[k + 1] = 65
    /\ \E k \in 1..Len(elems) : elems[k].kind = "Restart"
    /\ \E k \in 1..Len(elems) : elems[k].kind = "ECS"

====
